---- MODULE Spec2Model ----
(***************************************************************************)
(* AEGIS bridge plugin as a state machine: the seed subsystem              *)
(* (UAegisSeedSubsystem), the WebSocket server object                      *)
(* (UAegisWebSocketServer) and the bridge module (FAegisBridgeModule).     *)
(* Strings (FString) are sequences of one-character strings, TMap is a     *)
(* function with a finite domain, the editor world is a set of actor       *)
(* records.  FString comparison ignores case (StrEq); the strings used as  *)
(* map keys hold no two that differ in case only, so key lookup is         *)
(* equality of sequences.  Each call is one action and leaves its          *)
(* operation, arguments and result in lastOp.                              *)
(***************************************************************************)
EXTENDS Integers, Sequences, FiniteSets, TLC

VARIABLES
    GUIDRegistry,     \* TMap<FString, FAegisGUIDEntry>
    PathToGUIDMap,    \* TMap<FString, FString>
    SnapshotStorage,  \* TMap<FString, FString>
    GlobalSeed,       \* FString
    SeedCounter,      \* int32
    World,            \* the editor world: whether there is one, and its actors
    Files,            \* the file system: path -> bytes on disk
    lastOp,           \* the last completed call: operation, arguments, result
    pinned,           \* an earlier GenerateGUID call and the GlobalSeed it ran under
    lastStored,       \* per snapshot id: data of the last Store not yet deleted
    frame,            \* per thread: the RegisterGUID call it is executing
    bIsRunning,       \* UAegisWebSocketServer::bIsRunning
    ConnectedClients, \* UAegisWebSocketServer::ConnectedClients, TMap<FString, bool>
    bBridgeConnected, \* FAegisBridgeModule::bBridgeConnected
    ModuleState,      \* the module: "constructed", "started" or "shut down"
    Delegates,        \* the editor delegates the module is registered with
    GEditor,          \* whether the editor object exists
    lastEffective     \* the last Initialize or Shutdown that did not return early

vars == <<GUIDRegistry, PathToGUIDMap, SnapshotStorage, GlobalSeed, SeedCounter,
          World, Files, lastOp, pinned, lastStored, frame,
          bIsRunning, ConnectedClients, bBridgeConnected, ModuleState, Delegates,
          GEditor, lastEffective>>

serverVars == <<bIsRunning, ConnectedClients>>
moduleVars == <<bBridgeConnected, ModuleState, Delegates, GEditor>>
bridgeVars == <<serverVars, moduleVars, lastEffective>>
\* the state of the seed subsystem and its editor, lastOp excepted
subsystemVars == <<GUIDRegistry, PathToGUIDMap, SnapshotStorage, GlobalSeed, SeedCounter,
                   World, Files, pinned, lastStored, frame>>

seedVars == <<GlobalSeed, SeedCounter>>
registryVars == <<GUIDRegistry, PathToGUIDMap>>
worldVars == <<World>>
ghostVars == <<pinned, lastStored>>

----------------------------------------------------------------------------
(* Bounds of the model *)

\* largest FAegisGUIDEntry.Version the model lets a re-registration reach
MaxVersion == 2

----------------------------------------------------------------------------
(* Strings *)

None == "None"
EmptyString == << >>
\* an optional value: absent, or present with a value
NoValue == << >>
Some(v) == <<v>>

Lower == <<"a","b","c","d","e","f","g","h","i","j","k","l","m",
           "n","o","p","q","r","s","t","u","v","w","x","y","z">>
Upper == <<"A","B","C","D","E","F","G","H","I","J","K","L","M",
           "N","O","P","Q","R","S","T","U","V","W","X","Y","Z">>
Digits == <<"0","1","2","3","4","5","6","7","8","9">>
HexDigits == <<"0","1","2","3","4","5","6","7","8","9","a","b","c","d","e","f">>

IndexOf(seq, c) == CHOOSE i \in 1..Len(seq) : seq[i] = c
InSeq(seq, c) == \E i \in 1..Len(seq) : seq[i] = c

Punctuation == <<":", "/", ".", "-", "{", "}", "é">>
PunctuationCodes == <<58, 47, 46, 45, 123, 125, 233>>
Alphabet == {Lower[i] : i \in 1..26} \cup {Upper[i] : i \in 1..26}
            \cup {Digits[i] : i \in 1..10} \cup {Punctuation[i] : i \in 1..7}

\* code points of the characters used
CharCodes ==
    [c \in Alphabet |->
        IF InSeq(Lower, c) THEN 96 + IndexOf(Lower, c)
        ELSE IF InSeq(Upper, c) THEN 64 + IndexOf(Upper, c)
        ELSE IF InSeq(Digits, c) THEN 47 + IndexOf(Digits, c)
        ELSE PunctuationCodes[IndexOf(Punctuation, c)]]

\* code point of a TCHAR
CharCode(c) == CharCodes[c]

\* the TCHAR of a code point (inverse of CharCode on the characters used)
CodeChar(n) ==
    IF n >= 97 /\ n <= 122 THEN Lower[n - 96]
    ELSE IF n >= 65 /\ n <= 90 THEN Upper[n - 64]
    ELSE IF n >= 48 /\ n <= 57 THEN Digits[n - 47]
    ELSE CASE n = 58 -> ":"
           [] n = 47 -> "/"
           [] n = 46 -> "."
           [] n = 45 -> "-"
           [] n = 123 -> "{"
           [] n = 125 -> "}"
           [] n = 233 -> "é"
           [] OTHER -> "?"

Min(a, b) == IF a < b THEN a ELSE b

\* FString::Mid(Start, Count): Count characters from index Start, clamped
Mid(s, Start, Count) == SubSeq(s, Start + 1, Min(Start + Count, Len(s)))

\* FString::Mid(Start): the rest of the string from index Start
MidFrom(s, Start) == SubSeq(s, Start + 1, Len(s))

\* FString::ToUpper
UpperOf == [c \in Alphabet |-> IF InSeq(Lower, c) THEN Upper[IndexOf(Lower, c)] ELSE c]
ToUpper(s) == [i \in 1..Len(s) |-> UpperOf[s[i]]]

\* FString::ToLower
LowerOf == [c \in Alphabet |-> IF InSeq(Upper, c) THEN Lower[IndexOf(Upper, c)] ELSE c]
ToLower(s) == [i \in 1..Len(s) |-> LowerOf[s[i]]]

\* FString::operator==: comparison ignoring case
StrEq(a, b) == ToLower(a) = ToLower(b)

\* FString::FindLastChar: 0-based index of the last occurrence, or -1
FindLastChar(s, c) ==
    IF \E i \in 1..Len(s) : s[i] = c
    THEN (CHOOSE i \in 1..Len(s) : s[i] = c /\ \A j \in (i+1)..Len(s) : s[j] # c) - 1
    ELSE -1

RECURSIVE DecDigits(_)
\* decimal digits of a natural number
DecDigits(n) == IF n < 10 THEN <<Digits[n + 1]>>
                ELSE DecDigits(n \div 10) \o <<Digits[(n % 10) + 1]>>

\* Printf("%d") of an int32
FormatInt(n) == IF n < 0 THEN <<"-">> \o DecDigits(0 - n) ELSE DecDigits(n)

\* Printf("%02x") of a byte
Hex02(b) == <<HexDigits[(b \div 16) + 1], HexDigits[(b % 16) + 1]>>

RECURSIVE Flatten(_)
\* concatenation of a sequence of sequences
Flatten(ss) == IF ss = << >> THEN << >> ELSE Head(ss) \o Flatten(Tail(ss))

\* TCHAR_TO_UTF8: the UTF-8 bytes of a string
ToUTF8(s) ==
    Flatten([i \in 1..Len(s) |->
        LET c == CharCode(s[i]) IN
        IF c < 128 THEN <<c>> ELSE <<192 + (c \div 64), 128 + (c % 64)>>])

----------------------------------------------------------------------------
(* Hashing and GUID generation *)

\* number of bytes of an FSHAHash digest
DigestBytes == 20

RECURSIVE Mix(_, _)
\* running state of the digest over a byte buffer
Mix(h, bytes) == IF bytes = << >> THEN h
                 ELSE Mix((h * 31 + Head(bytes) + 7) % 65521, Tail(bytes))

\* FSHA1::HashBuffer(Data, Size, OutHash): the engine's digest primitive, a
\* fixed function of the first Size bytes of Data yielding DigestBytes bytes.
\* The engine's SHA-1 rounds are outside the repository; a small mixing
\* function stands for them.
HashBuffer(Data, Size) ==
    LET h == Mix(Size + 1, SubSeq(Data, 1, Size))
    IN  [i \in 1..DigestBytes |-> ((h + 1) * (37 * i + 11)) % 256]

ComputeSHA256(Input) ==
    LET Hash == HashBuffer(ToUTF8(Input), Len(Input))
    IN  Flatten([i \in 1..DigestBytes |-> Hex02(Hash[i])])

S_actor == <<"a","c","t","o","r">>
S_component == <<"c","o","m","p","o","n","e","n","t">>
S_asset == <<"a","s","s","e","t">>
S_blueprint == <<"b","l","u","e","p","r","i","n","t">>
S_material == <<"m","a","t","e","r","i","a","l">>
S_landscape == <<"l","a","n","d","s","c","a","p","e">>
S_foliage == <<"f","o","l","i","a","g","e">>
S_pcg == <<"p","c","g">>
S_ai == <<"a","i">>
S_custom == <<"c","u","s","t","o","m">>

\* a bug variant: the code of "actor" is returned for "asset" too
GetNamespaceCode_AssetAsActor(Namespace) ==
    IF StrEq(Namespace, S_actor) THEN <<"A","C","T">>
    ELSE IF StrEq(Namespace, S_component) THEN <<"C","M","P">>
    ELSE IF StrEq(Namespace, S_asset) THEN <<"A","C","T">>
    ELSE IF StrEq(Namespace, S_blueprint) THEN <<"B","P","T">>
    ELSE IF StrEq(Namespace, S_material) THEN <<"M","A","T">>
    ELSE IF StrEq(Namespace, S_landscape) THEN <<"L","N","D">>
    ELSE IF StrEq(Namespace, S_foliage) THEN <<"F","O","L">>
    ELSE IF StrEq(Namespace, S_pcg) THEN <<"P","C","G">>
    ELSE IF StrEq(Namespace, S_ai) THEN <<"A","I","N">>
    ELSE IF StrEq(Namespace, S_custom) THEN <<"C","U","S">>
    ELSE <<"U","N","K">>

GetNamespaceCode(Namespace) ==
    IF StrEq(Namespace, S_actor) THEN <<"A","C","T">>
    ELSE IF StrEq(Namespace, S_component) THEN <<"C","M","P">>
    ELSE IF StrEq(Namespace, S_asset) THEN <<"A","S","T">>
    ELSE IF StrEq(Namespace, S_blueprint) THEN <<"B","P","T">>
    ELSE IF StrEq(Namespace, S_material) THEN <<"M","A","T">>
    ELSE IF StrEq(Namespace, S_landscape) THEN <<"L","N","D">>
    ELSE IF StrEq(Namespace, S_foliage) THEN <<"F","O","L">>
    ELSE IF StrEq(Namespace, S_pcg) THEN <<"P","C","G">>
    ELSE IF StrEq(Namespace, S_ai) THEN <<"A","I","N">>
    ELSE IF StrEq(Namespace, S_custom) THEN <<"C","U","S">>
    ELSE <<"U","N","K">>

\* a bug variant: the subsystem's stored GlobalSeed is hashed in place of the
\* Seed argument
GenerateGUID_GlobalSeed(Namespace, EntityType, Seed, Counter, EntityName) ==
    LET InputString == Namespace \o <<":">> \o EntityType \o <<":">> \o GlobalSeed
                       \o <<":">> \o FormatInt(Counter) \o <<":">> \o EntityName
        Hash == ComputeSHA256(InputString)
        NamespaceCode == GetNamespaceCode(Namespace)
    IN  NamespaceCode \o <<"-">> \o ToUpper(Mid(Hash, 0, 8)) \o <<"-">>
        \o ToUpper(Mid(Hash, 8, 4)) \o <<"-">> \o ToUpper(Mid(Hash, 12, 4))
        \o <<"-">> \o ToUpper(Mid(Hash, 16, 12))

GenerateGUID(Namespace, EntityType, Seed, Counter, EntityName) ==
    LET InputString == Namespace \o <<":">> \o EntityType \o <<":">> \o Seed
                       \o <<":">> \o FormatInt(Counter) \o <<":">> \o EntityName
        Hash == ComputeSHA256(InputString)
        NamespaceCode == GetNamespaceCode(Namespace)
    IN  NamespaceCode \o <<"-">> \o ToUpper(Mid(Hash, 0, 8)) \o <<"-">>
        \o ToUpper(Mid(Hash, 8, 4)) \o <<"-">> \o ToUpper(Mid(Hash, 12, 4))
        \o <<"-">> \o ToUpper(Mid(Hash, 16, 12))

----------------------------------------------------------------------------
(* TMap *)

EmptyMap == [k \in {} |-> None]

\* TMap::Add: insert, or replace the value of an existing key
MapAdd(m, k, v) == [x \in (DOMAIN m) \cup {k} |-> IF x = k THEN v ELSE m[x]]

\* TMap::Remove: the map without the key
MapRemove(m, k) == [x \in (DOMAIN m) \ {k} |-> m[x]]

\* TMap::Remove's return value: the number of pairs removed
MapRemoveCount(m, k) == IF k \in DOMAIN m THEN 1 ELSE 0

----------------------------------------------------------------------------
(* Input domains *)

\* the instants FDateTime::UtcNow() is drawn from
Times == {0, 1}

GUIDs == {<<"G","1">>, <<"G","2">>}
LevelPath == <<"/","M",":","L">>
\* UObject::GetPathName of an actor of the level
ActorPath(Name) == LevelPath \o <<".">> \o Name
ActorNames == {<<"a">>, <<"b">>}
EntityPaths == {<<"x">>, ActorPath(<<"a">>)}
EntityTypes == {<<"T">>}
Metadatas == {<<"{","}">>, <<"m">>}

----------------------------------------------------------------------------
(* GUID registry *)

\* first check of RegisterGUID: the GUID is registered to another path
GUIDConflict(reg, GUID, EntityPath) ==
    GUID \in DOMAIN reg /\ ~StrEq(reg[GUID].EntityPath, EntityPath)

\* second check of RegisterGUID: the path has another GUID
PathConflict(map, GUID, EntityPath) ==
    EntityPath \in DOMAIN map /\ ~StrEq(map[EntityPath], GUID)

\* the FAegisGUIDEntry RegisterGUID builds
MakeEntry(reg, GUID, EntityPath, EntityType, Metadata, Now) ==
    LET LastSlash == FindLastChar(EntityPath, "/") IN
    [GUID |-> GUID,
     EntityPath |-> EntityPath,
     EntityType |-> EntityType,
     Metadata |-> Metadata,
     CreatedAt |-> Now,
     Version |-> IF GUID \in DOMAIN reg THEN reg[GUID].Version + 1 ELSE 1,
     EntityName |-> IF LastSlash >= 0 THEN MidFrom(EntityPath, LastSlash + 1)
                    ELSE EntityPath]

\* a bug variant: a conflict is logged but the call goes on and registers
RegisterGUIDCall_NoReject(reg, map, GUID, EntityPath, EntityType, Metadata, Now) ==
    [ret |-> TRUE,
     reg |-> MapAdd(reg, GUID, MakeEntry(reg, GUID, EntityPath, EntityType, Metadata, Now)),
     map |-> MapAdd(map, EntityPath, GUID)]

\* a bug variant: a path conflict leaves the maps alone but reports success
RegisterGUIDCall_TrueOnPathConflict(reg, map, GUID, EntityPath, EntityType, Metadata, Now) ==
    IF GUIDConflict(reg, GUID, EntityPath)
    THEN [ret |-> FALSE, reg |-> reg, map |-> map]
    ELSE IF PathConflict(map, GUID, EntityPath)
    THEN [ret |-> TRUE, reg |-> reg, map |-> map]
    ELSE [ret |-> TRUE,
          reg |-> MapAdd(reg, GUID, MakeEntry(reg, GUID, EntityPath, EntityType, Metadata, Now)),
          map |-> MapAdd(map, EntityPath, GUID)]

\* RegisterGUID run to completion on the maps (reg, map): its return value
\* and the maps it leaves
RegisterGUIDCall(reg, map, GUID, EntityPath, EntityType, Metadata, Now) ==
    IF GUIDConflict(reg, GUID, EntityPath)
    THEN [ret |-> FALSE, reg |-> reg, map |-> map]
    ELSE IF PathConflict(map, GUID, EntityPath)
    THEN [ret |-> FALSE, reg |-> reg, map |-> map]
    ELSE [ret |-> TRUE,
          reg |-> MapAdd(reg, GUID, MakeEntry(reg, GUID, EntityPath, EntityType, Metadata, Now)),
          map |-> MapAdd(map, EntityPath, GUID)]

\* the model follows a registry while no Version exceeds MaxVersion
VersionsBounded(reg) == \A g \in DOMAIN reg : reg[g].Version <= MaxVersion

RegisterGUID(GUID, EntityPath, EntityType, Metadata) ==
    \E Now \in Times :
        LET r == RegisterGUIDCall(GUIDRegistry, PathToGUIDMap, GUID, EntityPath,
                                  EntityType, Metadata, Now)
        IN  /\ VersionsBounded(r.reg)
            /\ GUIDRegistry' = r.reg
            /\ PathToGUIDMap' = r.map
            /\ lastOp' = [op |-> "RegisterGUID", GUID |-> GUID, EntityPath |-> EntityPath,
                          ret |-> r.ret]
            /\ UNCHANGED <<SnapshotStorage, seedVars, worldVars, Files, ghostVars, frame,
                   bridgeVars>>

\* ResolveGUID: found flag and the entry copied out
ResolveGUID(reg, GUID) ==
    IF GUID \in DOMAIN reg THEN [ret |-> TRUE, OutEntry |-> reg[GUID]]
    ELSE [ret |-> FALSE]

ClearGUIDRegistry ==
    /\ GUIDRegistry' = EmptyMap
    /\ PathToGUIDMap' = EmptyMap
    /\ lastOp' = [op |-> "ClearGUIDRegistry"]
    /\ UNCHANGED <<SnapshotStorage, seedVars, worldVars, Files, ghostVars, frame,
                   bridgeVars>>

SetGlobalSeed(Seed, bResetCounter) ==
    /\ GlobalSeed' = Seed
    /\ SeedCounter' = IF bResetCounter THEN 0 ELSE SeedCounter
    /\ lastOp' = [op |-> "SetGlobalSeed", Seed |-> Seed, bResetCounter |-> bResetCounter]
    /\ UNCHANGED <<registryVars, SnapshotStorage, worldVars, Files, ghostVars, frame,
                   bridgeVars>>

----------------------------------------------------------------------------
(* Snapshot store *)

SnapshotIds == {<<"s","1">>, <<"s","2">>}
SnapshotDatas == {EmptyString, <<"{","}">>, <<"é","x">>}

\* a bug variant: an id already stored keeps its old data
StoreSnapshot_KeepExisting(SnapshotId, SnapshotData) ==
    /\ SnapshotStorage' = IF SnapshotId \in DOMAIN SnapshotStorage THEN SnapshotStorage
                          ELSE MapAdd(SnapshotStorage, SnapshotId, SnapshotData)
    /\ lastStored' = [lastStored EXCEPT ![SnapshotId] = Some(SnapshotData)]
    /\ lastOp' = [op |-> "StoreSnapshot", SnapshotId |-> SnapshotId,
                  SnapshotData |-> SnapshotData, ret |-> TRUE]
    /\ UNCHANGED <<registryVars, seedVars, worldVars, Files, pinned, frame,
                   bridgeVars>>

StoreSnapshot(SnapshotId, SnapshotData) ==
    /\ SnapshotStorage' = MapAdd(SnapshotStorage, SnapshotId, SnapshotData)
    /\ lastStored' = [lastStored EXCEPT ![SnapshotId] = Some(SnapshotData)]
    /\ lastOp' = [op |-> "StoreSnapshot", SnapshotId |-> SnapshotId,
                  SnapshotData |-> SnapshotData, ret |-> TRUE]
    /\ UNCHANGED <<registryVars, seedVars, worldVars, Files, pinned, frame,
                   bridgeVars>>

\* LoadSnapshot: the data stored under the id, or the empty string
LoadSnapshot(SnapshotId) ==
    IF SnapshotId \in DOMAIN SnapshotStorage THEN SnapshotStorage[SnapshotId]
    ELSE EmptyString

\* a bug variant: the return value tells whether the store is empty afterwards
DeleteSnapshot_WrongReturn(SnapshotId) ==
    /\ SnapshotStorage' = MapRemove(SnapshotStorage, SnapshotId)
    /\ lastStored' = [lastStored EXCEPT ![SnapshotId] = NoValue]
    /\ lastOp' = [op |-> "DeleteSnapshot", SnapshotId |-> SnapshotId,
                  ret |-> (DOMAIN SnapshotStorage) \ {SnapshotId} = {}]
    /\ UNCHANGED <<registryVars, seedVars, worldVars, Files, pinned, frame,
                   bridgeVars>>

DeleteSnapshot(SnapshotId) ==
    /\ SnapshotStorage' = MapRemove(SnapshotStorage, SnapshotId)
    /\ lastStored' = [lastStored EXCEPT ![SnapshotId] = NoValue]
    /\ lastOp' = [op |-> "DeleteSnapshot", SnapshotId |-> SnapshotId,
                  ret |-> MapRemoveCount(SnapshotStorage, SnapshotId) > 0]
    /\ UNCHANGED <<registryVars, seedVars, worldVars, Files, pinned, frame,
                   bridgeVars>>

----------------------------------------------------------------------------
(* Snapshot files *)

FilePaths == {<<"/","f">>, <<"/","g">>}

\* FCString::IsPureAnsi: no character above 0x7f
IsPureAnsi(s) == \A i \in 1..Len(s) : CharCode(s[i]) <= 127

\* FFileHelper::SaveStringToFile, EEncodingOptions::AutoDetect: the bytes
\* written for a string (one byte per character when pure ANSI, else UTF-16
\* little endian after a byte order mark)
EncodeFile(s) ==
    IF IsPureAnsi(s) THEN [i \in 1..Len(s) |-> CharCode(s[i])]
    ELSE <<255, 254>> \o Flatten([i \in 1..Len(s) |->
             <<CharCode(s[i]) % 256, CharCode(s[i]) \div 256>>])

RECURSIVE DecodeUTF8(_)
\* UTF-8 bytes to characters (one- and two-byte sequences)
DecodeUTF8(b) ==
    IF b = << >> THEN << >>
    ELSE IF b[1] < 128 THEN <<CodeChar(b[1])>> \o DecodeUTF8(Tail(b))
    ELSE IF b[1] >= 192 /\ b[1] < 224 /\ Len(b) >= 2
    THEN <<CodeChar((b[1] - 192) * 64 + (b[2] % 64))>> \o DecodeUTF8(Tail(Tail(b)))
    ELSE <<"?">> \o DecodeUTF8(Tail(b))

RECURSIVE DecodeUTF16(_, _)
\* UTF-16 bytes to characters; LowFirst tells the byte order
DecodeUTF16(b, LowFirst) ==
    IF Len(b) < 2 THEN << >>
    ELSE <<CodeChar(IF LowFirst THEN b[1] + 256 * b[2] ELSE b[2] + 256 * b[1])>>
         \o DecodeUTF16(Tail(Tail(b)), LowFirst)

\* FFileHelper::BufferToString: a byte order mark selects the decoding
BufferToString(b) ==
    IF Len(b) >= 2 /\ b[1] = 255 /\ b[2] = 254 THEN DecodeUTF16(Tail(Tail(b)), TRUE)
    ELSE IF Len(b) >= 2 /\ b[1] = 254 /\ b[2] = 255 THEN DecodeUTF16(Tail(Tail(b)), FALSE)
    ELSE IF Len(b) >= 3 /\ b[1] = 239 /\ b[2] = 187 /\ b[3] = 191
    THEN DecodeUTF8(Tail(Tail(Tail(b))))
    ELSE DecodeUTF8(b)

\* a bug variant: with bCompress the data is written in a packed form
ExportData_Compress(SnapshotId, SnapshotData, bCompress) ==
    IF bCompress THEN <<"z">> \o SnapshotData ELSE SnapshotData

\* DataToWrite of ExportSnapshot
ExportData(SnapshotId, SnapshotData, bCompress) == SnapshotData

\* SaveOk: the outcome of SaveStringToFile, decided by the file system
ExportSnapshot(SnapshotId, SnapshotData, OutputPath, bCompress) ==
    \E SaveOk \in BOOLEAN :
        /\ Files' = IF SaveOk
                    THEN MapAdd(Files, OutputPath,
                                EncodeFile(ExportData(SnapshotId, SnapshotData, bCompress)))
                    ELSE Files
        /\ lastOp' = [op |-> "ExportSnapshot", SnapshotId |-> SnapshotId,
                      SnapshotData |-> SnapshotData, OutputPath |-> OutputPath,
                      bCompress |-> bCompress, ret |-> SaveOk]
        /\ UNCHANGED <<registryVars, SnapshotStorage, seedVars, worldVars, ghostVars, frame,
                   bridgeVars>>

\* ImportSnapshot: the file's content, or the empty string when it cannot be
\* loaded
ImportSnapshot(InputPath) ==
    IF InputPath \in DOMAIN Files THEN BufferToString(Files[InputPath])
    ELSE EmptyString

----------------------------------------------------------------------------
(* Sync, merge and diff *)

ConflictResolutions == {<<"s">>, <<"t">>}

\* a bug variant: a sync that is not a dry run reports one planned change
SyncWorldStateResult_CountsWhenLive(TargetSnapshotId, TargetEntities, bCaptureCurrentFirst, ConflictResolution, bDryRun) ==
    [success |-> TRUE, plannedChanges |-> IF bDryRun THEN 0 ELSE 1]

\* the JSON object SyncWorldState serializes
SyncWorldStateResult(TargetSnapshotId, TargetEntities, bCaptureCurrentFirst, ConflictResolution, bDryRun) ==
    [success |-> TRUE, plannedChanges |-> 0]

\* the JSON object MergeWorldStates serializes
MergeWorldStatesResult(SourceSnapshotId, TargetSnapshotId, Changes, ConflictResolution, bPreserveSourceGUIDs) ==
    [success |-> TRUE, appliedChanges |-> 0]

\* the JSON object ApplyDiff serializes
ApplyDiffResult(DiffId, Changes, ConflictResolution) ==
    [success |-> TRUE, appliedChanges |-> 0]

SyncWorldState(TargetSnapshotId, TargetEntities, bCaptureCurrentFirst, ConflictResolution, bDryRun) ==
    /\ lastOp' = [op |-> "SyncWorldState", ConflictResolution |-> ConflictResolution,
                  bCaptureCurrentFirst |-> bCaptureCurrentFirst, bDryRun |-> bDryRun,
                  ret |-> SyncWorldStateResult(TargetSnapshotId, TargetEntities,
                              bCaptureCurrentFirst, ConflictResolution, bDryRun)]
    /\ UNCHANGED <<registryVars, SnapshotStorage, seedVars, worldVars, Files, ghostVars, frame,
                   bridgeVars>>

MergeWorldStates(SourceSnapshotId, TargetSnapshotId, Changes, ConflictResolution, bPreserveSourceGUIDs) ==
    /\ lastOp' = [op |-> "MergeWorldStates", ConflictResolution |-> ConflictResolution,
                  bPreserveSourceGUIDs |-> bPreserveSourceGUIDs,
                  ret |-> MergeWorldStatesResult(SourceSnapshotId, TargetSnapshotId,
                              Changes, ConflictResolution, bPreserveSourceGUIDs)]
    /\ UNCHANGED <<registryVars, SnapshotStorage, seedVars, worldVars, Files, ghostVars, frame,
                   bridgeVars>>

ApplyDiff(DiffId, Changes, ConflictResolution) ==
    /\ lastOp' = [op |-> "ApplyDiff", ConflictResolution |-> ConflictResolution,
                  ret |-> ApplyDiffResult(DiffId, Changes, ConflictResolution)]
    /\ UNCHANGED <<registryVars, SnapshotStorage, seedVars, worldVars, Files, ghostVars, frame,
                   bridgeVars>>

----------------------------------------------------------------------------
(* Editor world and RestoreWorldState *)

ZeroVector == <<0, 0, 0>>
OneVector == <<1, 1, 1>>
ZeroRotator == <<0, 0, 0>>

\* class names FindObject<UClass> / LoadClass<AActor> resolve
LoadableClasses == {<<"A">>}
S_replace == <<"r","e","p","l","a","c","e">>
MergeModes == {S_replace, <<"m","e","r","g","e">>, EmptyString}

\* an actor of the world before any call
PreActor == [Name |-> <<"b">>, Class |-> <<"A">>, Location |-> <<7, 7, 7>>,
             Rotation |-> <<0, 9, 0>>, Scale |-> <<2, 2, 2>>,
             Tags |-> << >>, Components |-> << >>]

\* JSON texts passed as Entities, by what the reader makes of them: root is
\* "malformed" (no JSON), "scalar", "object" or "array" (with its items)
Obj(class, name, guid, transform) ==
    [kind |-> "object", class |-> class, name |-> name, guid |-> guid,
     transform |-> transform]
ItemNumber == [kind |-> "number"]
FullTransform ==
    Some([location |-> Some(<<1, 2, 3>>), rotation |-> Some(<<0, 9, 0>>),
          scale |-> Some(<<2, 2, 2>>)])
PartTransform ==
    Some([location |-> Some(<<4, 5, 6>>), rotation |-> NoValue, scale |-> NoValue])
ArrayDoc(items) == [root |-> "array", items |-> items]
EntityDocs ==
    { [root |-> "malformed"], [root |-> "scalar"], [root |-> "object"],
      ArrayDoc(<< >>),
      ArrayDoc(<<ItemNumber>>),
      ArrayDoc(<<Obj(<<"A">>, <<"a">>, <<"G","1">>, FullTransform)>>),
      ArrayDoc(<<Obj(<<"N">>, <<"a">>, <<"G","1">>, NoValue)>>),
      ArrayDoc(<<Obj(<<"A">>, <<"a">>, <<"G","1">>, NoValue),
                 Obj(<<"A">>, <<"b">>, <<"G","1">>, PartTransform)>>),
      ArrayDoc(<<ItemNumber, Obj(<<"A">>, <<"b">>, EmptyString, FullTransform)>>),
      ArrayDoc(<<Obj(<<"A">>, <<"a">>, <<"G","2">>, PartTransform)>>) }

\* FJsonSerializer::Deserialize into an FJsonValue: succeeds on a composite
\* root (object or array) only
Deserialize(doc) == doc.root \in {"object", "array"}

\* FJsonValue::TryGetArray
TryGetArray(doc) == doc.root = "array"

ItemCount(doc) == IF doc.root = "array" THEN Len(doc.items) ELSE 0

\* Location, Rotation and Scale RestoreWorldState reads from an entity object
EntityLocation(e) ==
    IF e.transform # NoValue /\ e.transform[1].location # NoValue
    THEN e.transform[1].location[1]
    ELSE ZeroVector
EntityRotation(e) ==
    IF e.transform # NoValue /\ e.transform[1].rotation # NoValue
    THEN e.transform[1].rotation[1]
    ELSE ZeroRotator
EntityScale(e) ==
    IF e.transform # NoValue /\ e.transform[1].scale # NoValue
    THEN e.transform[1].scale[1]
    ELSE OneVector

\* UWorld::SpawnActor with SpawnParams.Name, by the two outcomes the call
\* site tests (an actor, or nullptr).  The engine decides (EngineOk); a name
\* already in use in the level yields no actor.
SpawnSucceeds(actors, Name, EngineOk) ==
    EngineOk /\ ~\E a \in actors : a.Name = Name

RECURSIVE RestoreLoop(_, _, _, _, _, _)
\* the loop of RestoreWorldState over the entity array, from item i on; st holds
\* the actors, the two registry maps and RestoredCount
RestoreLoop(items, i, st, bPreserveGUIDs, SpawnOk, Nows) ==
    IF i > Len(items) THEN st
    ELSE LET e == items[i] IN
         IF e.kind # "object"
         THEN RestoreLoop(items, i + 1, st, bPreserveGUIDs, SpawnOk, Nows)
         ELSE IF ~(e.class \in LoadableClasses /\ SpawnSucceeds(st.actors, e.name, SpawnOk[i]))
         THEN RestoreLoop(items, i + 1, st, bPreserveGUIDs, SpawnOk, Nows)
         ELSE LET Actor == [Name |-> e.name, Class |-> e.class,
                            Location |-> EntityLocation(e),
                            Rotation |-> EntityRotation(e),
                            Scale |-> EntityScale(e),
                            Tags |-> << >>, Components |-> << >>]
                  r == IF bPreserveGUIDs /\ e.guid # EmptyString
                       THEN RegisterGUIDCall(st.reg, st.map, e.guid, ActorPath(e.name),
                                             e.class, <<"{","}">>, Nows[i])
                       ELSE [ret |-> FALSE, reg |-> st.reg, map |-> st.map]
              IN  RestoreLoop(items, i + 1,
                              [actors |-> st.actors \cup {Actor}, reg |-> r.reg,
                               map |-> r.map, count |-> st.count + 1],
                              bPreserveGUIDs, SpawnOk, Nows)


\* a bug variant: merge mode "replace" first destroys the actors of the world
RestoreWorldStateCall_ReplaceClears(world, reg, map, Entities, MergeMode, bPreserveGUIDs, SpawnOk, Nows) ==
    IF ~world.exists \/ ~Deserialize(Entities) \/ ~TryGetArray(Entities)
    THEN [ret |-> FALSE, world |-> world, reg |-> reg, map |-> map, trans |-> 0,
          count |-> 0]
    ELSE LET st == RestoreLoop(Entities.items, 1,
                       [actors |-> IF StrEq(MergeMode, S_replace) THEN {} ELSE world.actors,
                        reg |-> reg, map |-> map, count |-> 0],
                       bPreserveGUIDs, SpawnOk, Nows)
         IN  [ret |-> TRUE, world |-> [world EXCEPT !.actors = st.actors],
              reg |-> st.reg, map |-> st.map, trans |-> 1, count |-> st.count]

\* a bug variant: a restore that restored nothing reports failure
RestoreWorldStateCall_FalseOnZero(world, reg, map, Entities, MergeMode, bPreserveGUIDs, SpawnOk, Nows) ==
    IF ~world.exists \/ ~Deserialize(Entities) \/ ~TryGetArray(Entities)
    THEN [ret |-> FALSE, world |-> world, reg |-> reg, map |-> map, trans |-> 0,
          count |-> 0]
    ELSE LET st == RestoreLoop(Entities.items, 1,
                       [actors |-> world.actors, reg |-> reg, map |-> map, count |-> 0],
                       bPreserveGUIDs, SpawnOk, Nows)
         IN  [ret |-> st.count > 0, world |-> [world EXCEPT !.actors = st.actors],
              reg |-> st.reg, map |-> st.map, trans |-> 1, count |-> st.count]

\* RestoreWorldState run to completion: its return value, the world and the
\* registry maps it leaves, the number of editor transactions it opened
\* (BeginTransaction, closed by EndTransaction) and RestoredCount.  Merge mode
\* "replace" has an empty branch.
RestoreWorldStateCall(world, reg, map, Entities, MergeMode, bPreserveGUIDs, SpawnOk, Nows) ==
    IF ~world.exists \/ ~Deserialize(Entities) \/ ~TryGetArray(Entities)
    THEN [ret |-> FALSE, world |-> world, reg |-> reg, map |-> map, trans |-> 0,
          count |-> 0]
    ELSE LET st == RestoreLoop(Entities.items, 1,
                       [actors |-> world.actors, reg |-> reg, map |-> map, count |-> 0],
                       bPreserveGUIDs, SpawnOk, Nows)
         IN  [ret |-> TRUE, world |-> [world EXCEPT !.actors = st.actors],
              reg |-> st.reg, map |-> st.map, trans |-> 1, count |-> st.count]

\* the outcomes the engine can give SpawnActor for item i: none is drawn for
\* an item that never reaches the call
SpawnOutcomes(Entities, i) ==
    IF Entities.items[i].kind = "object" /\ Entities.items[i].class \in LoadableClasses
    THEN BOOLEAN ELSE {FALSE}

\* the instants UtcNow can give the RegisterGUID call of item i: none is drawn
\* for an item that never reaches the call
NowOutcomes(Entities, i, bPreserveGUIDs) ==
    IF /\ bPreserveGUIDs
       /\ Entities.items[i].kind = "object"
       /\ Entities.items[i].class \in LoadableClasses
       /\ Entities.items[i].guid # EmptyString
    THEN Times ELSE {0}

RestoreWorldState(SnapshotId, Entities, MergeMode, bPreserveGUIDs) ==
    \E SpawnOk \in [1..ItemCount(Entities) -> BOOLEAN],
       Nows \in [1..ItemCount(Entities) -> Times] :
        /\ \A i \in 1..ItemCount(Entities) :
              /\ SpawnOk[i] \in SpawnOutcomes(Entities, i)
              /\ Nows[i] \in NowOutcomes(Entities, i, bPreserveGUIDs)
        /\ LET r == RestoreWorldStateCall(World, GUIDRegistry, PathToGUIDMap, Entities,
                                          MergeMode, bPreserveGUIDs, SpawnOk, Nows)
           IN  /\ VersionsBounded(r.reg)
               /\ World' = r.world
               /\ GUIDRegistry' = r.reg
               /\ PathToGUIDMap' = r.map
               /\ lastOp' = [op |-> "RestoreWorldState", Entities |-> Entities,
                             MergeMode |-> MergeMode, bPreserveGUIDs |-> bPreserveGUIDs,
                             SpawnOk |-> SpawnOk, Nows |-> Nows,
                             ret |-> r.ret, trans |-> r.trans, count |-> r.count]
               /\ UNCHANGED <<SnapshotStorage, seedVars, Files, ghostVars, frame,
                   bridgeVars>>

----------------------------------------------------------------------------
(* CaptureAllActors *)

\* FString::Contains(SubStr) with its default search case (ignore case), for
\* a non-empty SubStr
Contains(s, SubStr) ==
    \E i \in 0..(Len(s) - Len(SubStr)) : StrEq(SubSeq(s, i + 1, i + Len(SubStr)), SubStr)

\* the class filter of CaptureAllActors: no filter, or the class name
\* contains one of the filter strings
MatchesClass(Actor, ClassFilter) ==
    Len(ClassFilter) > 0 =>
        \E i \in 1..Len(ClassFilter) : Contains(Actor.Class, ClassFilter[i])

\* a bug variant: an actor passes the tag filter when it has any one of the
\* filter tags
HasAllTags_AnyTag(Actor, TagFilter) ==
    Len(TagFilter) > 0 =>
        \E i \in 1..Len(TagFilter) :
            \E j \in 1..Len(Actor.Tags) : StrEq(Actor.Tags[j], TagFilter[i])

\* the tag filter of CaptureAllActors: no filter, or every filter tag is (by
\* FString ==) the text of one of the actor's tags
HasAllTags(Actor, TagFilter) ==
    Len(TagFilter) > 0 =>
        \A i \in 1..Len(TagFilter) :
            \E j \in 1..Len(Actor.Tags) : StrEq(Actor.Tags[j], TagFilter[i])

\* the JSON object CaptureAllActors builds for one actor
ActorObj(Actor, map) ==
    [guid |-> IF ActorPath(Actor.Name) \in DOMAIN map THEN map[ActorPath(Actor.Name)]
              ELSE EmptyString,
     name |-> Actor.Name,
     class |-> Actor.Class,
     path |-> ActorPath(Actor.Name),
     transform |-> [location |-> Actor.Location, rotation |-> Actor.Rotation,
                    scale |-> Actor.Scale],
     tags |-> Actor.Tags,
     components |-> Actor.Components]

RECURSIVE CaptureLoop(_, _, _, _, _)
\* the loop of CaptureAllActors over the actors in the order It visits them:
\* the ActorArray it builds from item i on
CaptureLoop(It, i, map, ClassFilter, TagFilter) ==
    IF i > Len(It) THEN << >>
    ELSE IF ~MatchesClass(It[i], ClassFilter)
         THEN CaptureLoop(It, i + 1, map, ClassFilter, TagFilter)
    ELSE IF ~HasAllTags(It[i], TagFilter)
         THEN CaptureLoop(It, i + 1, map, ClassFilter, TagFilter)
    ELSE <<ActorObj(It[i], map)>> \o CaptureLoop(It, i + 1, map, ClassFilter, TagFilter)

\* CaptureAllActors run to completion: the JSON document it returns, "{}"
\* without an editor world, else an object whose field "actors" is ActorArray.
\* It is the order in which TActorIterator visits the actors of the world.
CaptureAllActorsCall(world, map, It, ClassFilter, TagFilter) ==
    IF ~world.exists THEN [root |-> "object", actors |-> NoValue]
    ELSE [root |-> "object",
          actors |-> Some(CaptureLoop(It, 1, map, ClassFilter, TagFilter))]

\* actors of the worlds captured, besides PreActor
TaggedActor == [Name |-> <<"c">>, Class |-> <<"A","b">>, Location |-> <<1, 2, 3>>,
                Rotation |-> ZeroRotator, Scale |-> OneVector,
                Tags |-> << <<"t">> >>,
                Components |-> << [name |-> <<"r">>, class |-> <<"S">>] >>]
TwoTagActor == [Name |-> <<"d">>, Class |-> <<"B">>, Location |-> ZeroVector,
                Rotation |-> ZeroRotator, Scale |-> OneVector,
                Tags |-> << <<"t">>, <<"U">> >>, Components |-> << >>]
CaptureWorlds ==
    {[exists |-> FALSE, actors |-> {}]}
    \cup {[exists |-> TRUE, actors |-> S] : S \in SUBSET {PreActor, TaggedActor, TwoTagActor}}
\* filters passed to CaptureAllActors (filter strings are not empty)
ClassFilters == { << >>, << <<"b">> >>, << <<"A">> >>, << <<"c">>, <<"A","b">> >> }
TagFilters == { << >>, << <<"t">> >>, << <<"t">>, <<"u">> >>, << <<"x">> >> }

\* the orders in which an iterator can visit a set of actors, each once
Orders(actors) ==
    {o \in [1..Cardinality(actors) -> actors] :
        \A i, j \in 1..Cardinality(actors) : o[i] = o[j] => i = j}

CaptureAllActors(ClassFilter, TagFilter) ==
    \E It \in Orders(World.actors) :
        /\ lastOp' = [op |-> "CaptureAllActors", ClassFilter |-> ClassFilter,
                      TagFilter |-> TagFilter,
                      ret |-> CaptureAllActorsCall(World, PathToGUIDMap, It,
                                                   ClassFilter, TagFilter)]
        /\ UNCHANGED <<registryVars, SnapshotStorage, seedVars, worldVars, Files,
                       ghostVars, frame,
                   bridgeVars>>

----------------------------------------------------------------------------
(* CaptureFoliage *)

\* class of the actors TActorIterator<AInstancedFoliageActor> visits
FoliageClass == <<"I","F","A">>
FoliageActor == [Name |-> <<"f">>, Class |-> FoliageClass, Location |-> ZeroVector,
                 Rotation |-> ZeroRotator, Scale |-> OneVector,
                 Tags |-> << >>, Components |-> << >>]

\* the JSON object CaptureFoliage builds for one foliage actor
FoliageObj(Foliage, bIncludeInstances) ==
    [name |-> Foliage.Name,
     path |-> ActorPath(Foliage.Name),
     instanceCount |-> 0,
     instanceDataHash |-> IF bIncludeInstances THEN Some(ComputeSHA256(Foliage.Name))
                          ELSE NoValue]

\* CaptureFoliage run to completion: "{}" without an editor world, else an
\* object whose field "foliageActors" holds one object per foliage actor, in
\* the order It of the iterator
CaptureFoliageCall(world, It, bIncludeInstances) ==
    IF ~world.exists THEN [root |-> "object", foliageActors |-> NoValue]
    ELSE [root |-> "object",
          foliageActors |-> Some([i \in 1..Len(It) |->
                                    FoliageObj(It[i], bIncludeInstances)])]

CaptureFoliage(bIncludeInstances) ==
    \E It \in Orders({a \in World.actors : a.Class = FoliageClass}) :
        /\ lastOp' = [op |-> "CaptureFoliage", bIncludeInstances |-> bIncludeInstances,
                      It |-> It,
                      ret |-> CaptureFoliageCall(World, It, bIncludeInstances)]
        /\ UNCHANGED <<registryVars, SnapshotStorage, seedVars, worldVars, Files,
                       ghostVars, frame,
                   bridgeVars>>

----------------------------------------------------------------------------
(* GenerateGUID as a call *)

Namespaces == {S_actor, <<"z">>}
Seeds == {<<"s">>, <<"é">>}
Counters == {0, 12}
EntityNames == {<<"n">>}

\* arguments of the calls whose returned text is examined
FormatNamespaces ==
    {S_actor, S_component, S_asset, S_blueprint, S_material, S_landscape, S_foliage,
     S_pcg, S_ai, S_custom, <<"z">>, EmptyString, <<"A","C","T","O","R">>, <<"A","i">>}
FormatCounters == {0, 12, -3}
FormatNames == {<<"n">>, <<"é","x">>}

\* a call of GenerateGUID; Pin tells whether the call is kept in pinned for
\* comparison with later calls
GenerateGUIDCall(Namespace, EntityType, Seed, Counter, EntityName, Pin) ==
    LET call == [op |-> "GenerateGUID",
                 args |-> <<Namespace, EntityType, Seed, Counter, EntityName>>,
                 ret |-> GenerateGUID(Namespace, EntityType, Seed, Counter, EntityName)]
    IN  /\ lastOp' = call
        /\ pinned' = IF Pin
                     THEN [op |-> "GenerateGUID", args |-> call.args, ret |-> call.ret,
                           seedThen |-> GlobalSeed]
                     ELSE pinned
        /\ UNCHANGED <<registryVars, SnapshotStorage, seedVars, worldVars, Files,
                       lastStored, frame,
                   bridgeVars>>

----------------------------------------------------------------------------
(* RegisterGUID step by step, for calls that run interleaved *)

Threads == {1, 2}
ConcMetadatas == {<<"{","}">>}

IdleFrame == [pc |-> "idle"]

\* a thread enters RegisterGUID with its arguments
Begin(t, GUID, EntityPath, EntityType, Metadata) ==
    /\ frame[t].pc = "idle"
    /\ frame' = [frame EXCEPT ![t] = [pc |-> "checkGUID", GUID |-> GUID,
                     EntityPath |-> EntityPath, EntityType |-> EntityType,
                     Metadata |-> Metadata]]
    /\ UNCHANGED <<registryVars, SnapshotStorage, seedVars, worldVars, Files, lastOp,
                   ghostVars, bridgeVars>>

\* the check of GUIDRegistry: return false, or go on
CheckGUID(t) ==
    /\ frame[t].pc = "checkGUID"
    /\ frame' = [frame EXCEPT ![t] =
                    IF GUIDConflict(GUIDRegistry, frame[t].GUID, frame[t].EntityPath)
                    THEN [pc |-> "done", GUID |-> frame[t].GUID,
                          EntityPath |-> frame[t].EntityPath, ret |-> FALSE]
                    ELSE [frame[t] EXCEPT !.pc = "checkPath"]]
    /\ UNCHANGED <<registryVars, SnapshotStorage, seedVars, worldVars, Files, lastOp,
                   ghostVars, bridgeVars>>

\* a bug variant: a path conflict returns true
CheckPath_TrueOnConflict(t) ==
    /\ frame[t].pc = "checkPath"
    /\ frame' = [frame EXCEPT ![t] =
                    IF PathConflict(PathToGUIDMap, frame[t].GUID, frame[t].EntityPath)
                    THEN [pc |-> "done", GUID |-> frame[t].GUID,
                          EntityPath |-> frame[t].EntityPath, ret |-> TRUE]
                    ELSE [frame[t] EXCEPT !.pc = "build"]]
    /\ UNCHANGED <<registryVars, SnapshotStorage, seedVars, worldVars, Files, lastOp,
                   ghostVars, bridgeVars>>

\* the check of PathToGUIDMap: return false, or go on
CheckPath(t) ==
    /\ frame[t].pc = "checkPath"
    /\ frame' = [frame EXCEPT ![t] =
                    IF PathConflict(PathToGUIDMap, frame[t].GUID, frame[t].EntityPath)
                    THEN [pc |-> "done", GUID |-> frame[t].GUID,
                          EntityPath |-> frame[t].EntityPath, ret |-> FALSE]
                    ELSE [frame[t] EXCEPT !.pc = "build"]]
    /\ UNCHANGED <<registryVars, SnapshotStorage, seedVars, worldVars, Files, lastOp,
                   ghostVars, bridgeVars>>

\* the entry is built; Version reads GUIDRegistry
BuildEntry(t) ==
    /\ frame[t].pc = "build"
    /\ \E Now \in Times :
         LET Entry == MakeEntry(GUIDRegistry, frame[t].GUID, frame[t].EntityPath,
                                frame[t].EntityType, frame[t].Metadata, Now)
         IN  /\ Entry.Version <= MaxVersion
             /\ frame' = [frame EXCEPT ![t] = [pc |-> "addRegistry", GUID |-> frame[t].GUID,
                              EntityPath |-> frame[t].EntityPath, Entry |-> Entry]]
    /\ UNCHANGED <<registryVars, SnapshotStorage, seedVars, worldVars, Files, lastOp,
                   ghostVars, bridgeVars>>

\* GUIDRegistry.Add(GUID, Entry)
AddRegistry(t) ==
    /\ frame[t].pc = "addRegistry"
    /\ GUIDRegistry' = MapAdd(GUIDRegistry, frame[t].GUID, frame[t].Entry)
    /\ frame' = [frame EXCEPT ![t] = [pc |-> "addPath", GUID |-> frame[t].GUID,
                     EntityPath |-> frame[t].EntityPath]]
    /\ UNCHANGED <<PathToGUIDMap, SnapshotStorage, seedVars, worldVars, Files, lastOp,
                   ghostVars, bridgeVars>>

\* PathToGUIDMap.Add(EntityPath, GUID), and return true
AddPath(t) ==
    /\ frame[t].pc = "addPath"
    /\ PathToGUIDMap' = MapAdd(PathToGUIDMap, frame[t].EntityPath, frame[t].GUID)
    /\ frame' = [frame EXCEPT ![t] = [pc |-> "done", GUID |-> frame[t].GUID,
                     EntityPath |-> frame[t].EntityPath, ret |-> TRUE]]
    /\ UNCHANGED <<GUIDRegistry, SnapshotStorage, seedVars, worldVars, Files, lastOp,
                   ghostVars, bridgeVars>>

----------------------------------------------------------------------------
(* WebSocket server (UAegisWebSocketServer) and bridge module                *)
(* (FAegisBridgeModule).  Client ids and event types are kept as TLA+        *)
(* strings: the code only passes them on.  A JSON message is the record of   *)
(* its fields.                                                               *)

ClientIds == {"c1", "c2"}
EventTypes == {"custom.event", "world.entity.spawned"}
\* Data passed to BroadcastEvent: a null pointer, or an object
EventDatas == {NoValue, Some([k |-> "v"])}

\* the editor delegates RegisterEditorDelegates binds
AllDelegates == {"OnMapOpened", "OnLevelActorAdded", "OnLevelActorDeleted",
                 "SelectionChangedEvent"}

\* FAegisBridgeModule::IsAvailable: the module manager has the module loaded
\* and ready, from the end of StartupModule to ShutdownModule
IsAvailable(state) == state = "started"

\* UAegisWebSocketServer::GetClientCount
GetClientCount(clients) == Cardinality(DOMAIN clients)

\* UAegisWebSocketServer::IsRunning
IsRunning(running) == running

\* FAegisBridgeModule::IsBridgeConnected
IsBridgeConnected(connected) == connected

\* SendToClient: the messages that reach the send of the function (a log
\* line in this code), none for an unknown client
SendToClient(clients, ClientId, Message) ==
    IF ClientId \notin DOMAIN clients THEN << >>
    ELSE << [to |-> ClientId, msg |-> Message] >>

\* a bug variant: the event is sent whether or not the server is running
BroadcastEventCall_AlwaysSends(running, clients, It, EventType, Data, Now) ==
    LET EventMessage == [type |-> "event", event |-> EventType, timestamp |-> Now,
                         data |-> Data]
    IN  Flatten([i \in 1..Len(It) |-> SendToClient(clients, It[i], EventMessage)])

\* BroadcastEvent run to completion: the sends it makes.  It is the order in
\* which the loop visits ConnectedClients, Now the instant of UtcNow.
BroadcastEventCall(running, clients, It, EventType, Data, Now) ==
    IF ~running THEN << >>
    ELSE LET EventMessage == [type |-> "event", event |-> EventType, timestamp |-> Now,
                              data |-> Data]
         IN  Flatten([i \in 1..Len(It) |-> SendToClient(clients, It[i], EventMessage)])

\* UAegisWebSocketServer::Initialize
Initialize(Port) ==
    /\ IF bIsRunning
       THEN UNCHANGED <<bIsRunning, lastEffective>>
       ELSE /\ bIsRunning' = TRUE
            /\ lastEffective' = "Initialize"
    /\ lastOp' = [op |-> "Initialize", Port |-> Port, sent |-> << >>]
    /\ UNCHANGED <<ConnectedClients, moduleVars, subsystemVars>>

\* a bug variant: Shutdown stops the server and keeps the clients
Shutdown_KeepsClients ==
    /\ bIsRunning' = FALSE
    /\ UNCHANGED ConnectedClients
    /\ lastEffective' = IF bIsRunning THEN "Shutdown" ELSE lastEffective
    /\ lastOp' = [op |-> "Shutdown", sent |-> << >>]
    /\ UNCHANGED <<moduleVars, subsystemVars>>

\* UAegisWebSocketServer::Shutdown
Shutdown ==
    /\ IF ~bIsRunning
       THEN UNCHANGED <<serverVars, lastEffective>>
       ELSE /\ ConnectedClients' = EmptyMap
            /\ bIsRunning' = FALSE
            /\ lastEffective' = "Shutdown"
    /\ lastOp' = [op |-> "Shutdown", sent |-> << >>]
    /\ UNCHANGED <<moduleVars, subsystemVars>>

\* UAegisWebSocketServer::BroadcastEvent, called from outside the server
BroadcastEvent(EventType, Data) ==
    \E It \in Orders(DOMAIN ConnectedClients), Now \in Times :
        /\ lastOp' = [op |-> "BroadcastEvent", EventType |-> EventType, Data |-> Data,
                      sent |-> BroadcastEventCall(bIsRunning, ConnectedClients, It,
                                                  EventType, Data, Now)]
        /\ UNCHANGED <<bridgeVars, subsystemVars>>

WelcomeData == Some([version |-> "1.0.0", server |-> "AegisBridge"])

\* UAegisWebSocketServer::OnClientConnected
OnClientConnected(ClientId) ==
    LET clients == MapAdd(ConnectedClients, ClientId, TRUE) IN
    \E It \in Orders(DOMAIN clients), Now \in Times :
        /\ ConnectedClients' = clients
        /\ bBridgeConnected' = IF IsAvailable(ModuleState) THEN TRUE ELSE bBridgeConnected
        /\ lastOp' = [op |-> "OnClientConnected", ClientId |-> ClientId,
                      sent |-> BroadcastEventCall(bIsRunning, clients, It,
                                   "connection.established", WelcomeData, Now)]
        /\ UNCHANGED <<bIsRunning, ModuleState, Delegates, GEditor, lastEffective,
                       subsystemVars>>

\* UAegisWebSocketServer::OnClientDisconnected
OnClientDisconnected(ClientId) ==
    LET clients == MapRemove(ConnectedClients, ClientId) IN
        /\ ConnectedClients' = clients
        /\ bBridgeConnected' = IF IsAvailable(ModuleState) /\ GetClientCount(clients) = 0
                               THEN FALSE ELSE bBridgeConnected
        /\ lastOp' = [op |-> "OnClientDisconnected", ClientId |-> ClientId,
                      sent |-> << >>]
        /\ UNCHANGED <<bIsRunning, ModuleState, Delegates, GEditor, lastEffective,
                       subsystemVars>>

\* FAegisBridgeModule::StartupModule, run by the module manager when it loads
\* the module: InitializeWebSocketServer only writes a log line, the
\* delegates are bound when the editor object exists
StartupModule ==
    /\ ModuleState = "constructed"
    /\ Delegates' = IF GEditor THEN AllDelegates ELSE Delegates
    /\ ModuleState' = "started"
    /\ lastOp' = [op |-> "StartupModule", sent |-> << >>]
    /\ UNCHANGED <<serverVars, bBridgeConnected, GEditor, lastEffective, subsystemVars>>

\* FAegisBridgeModule::ShutdownModule, run by the module manager when it
\* unloads the module
ShutdownModule ==
    /\ ModuleState = "started"
    /\ Delegates' = IF GEditor THEN {} ELSE Delegates \ {"OnMapOpened", "OnLevelActorAdded",
                                                          "OnLevelActorDeleted"}
    /\ ModuleState' = "shut down"
    /\ lastOp' = [op |-> "ShutdownModule", sent |-> << >>]
    /\ UNCHANGED <<serverVars, bBridgeConnected, GEditor, lastEffective, subsystemVars>>

\* actors and levels the editor events are about
EventActors == {NoValue, Some(PreActor)}
LevelNames == {<<"L">>}
Selections == {<< >>, <<PreActor>>}

\* the handlers of the editor delegates: the sends each makes
OnLevelLoaded(world, LevelName, It, Now) ==
    BroadcastEventCall(bIsRunning, ConnectedClients, It, "world.level.changed",
        Some([levelName |-> LevelName,
              worldName |-> IF world.exists THEN <<"W">> ELSE EmptyString]), Now)

OnActorSpawned(Actor, It, Now) ==
    IF Actor = NoValue THEN << >>
    ELSE BroadcastEventCall(bIsRunning, ConnectedClients, It, "world.entity.spawned",
             Some([actorName |-> Actor[1].Name, actorClass |-> Actor[1].Class,
                   actorPath |-> ActorPath(Actor[1].Name)]), Now)

OnActorDeleted(Actor, It, Now) ==
    IF Actor = NoValue THEN << >>
    ELSE BroadcastEventCall(bIsRunning, ConnectedClients, It, "world.entity.destroyed",
             Some([actorName |-> Actor[1].Name, actorClass |-> Actor[1].Class]), Now)

OnSelectionChanged(Selected, It, Now) ==
    LET SelectedActors == IF GEditor THEN Selected ELSE << >> IN
    BroadcastEventCall(bIsRunning, ConnectedClients, It, "editor.selection.changed",
        Some([selectedActors |->
                 [i \in 1..Len(SelectedActors) |->
                     [name |-> SelectedActors[i].Name, class |-> SelectedActors[i].Class,
                      path |-> ActorPath(SelectedActors[i].Name)]],
              count |-> Len(SelectedActors)]), Now)

\* an editor event: the engine runs the delegate, which calls the handler of
\* the module when the module is bound to it
EditorEvent(Delegate, Arg) ==
    \E It \in Orders(DOMAIN ConnectedClients), Now \in Times :
        /\ lastOp' = [op |-> "EditorEvent", Delegate |-> Delegate, Arg |-> Arg,
                      sent |-> IF Delegate \notin Delegates THEN << >>
                               ELSE CASE Delegate = "OnMapOpened" ->
                                             OnLevelLoaded(World, Arg, It, Now)
                                      [] Delegate = "OnLevelActorAdded" ->
                                             OnActorSpawned(Arg, It, Now)
                                      [] Delegate = "OnLevelActorDeleted" ->
                                             OnActorDeleted(Arg, It, Now)
                                      [] Delegate = "SelectionChangedEvent" ->
                                             OnSelectionChanged(Arg, It, Now)]
        /\ UNCHANGED <<bridgeVars, subsystemVars>>

----------------------------------------------------------------------------
(* Specifications *)

\* the editor is up: the bridge module has completed StartupModule with the
\* editor available, the seed subsystem and the WebSocket server object are
\* as constructed
Init ==
    /\ GUIDRegistry = EmptyMap
    /\ PathToGUIDMap = EmptyMap
    /\ SnapshotStorage = EmptyMap
    /\ GlobalSeed = EmptyString
    /\ SeedCounter = 0
    /\ World \in {[exists |-> FALSE, actors |-> {}],
                  [exists |-> TRUE, actors |-> {PreActor}]}
    /\ Files = EmptyMap
    /\ lastOp = [op |-> "Init"]
    /\ pinned = [op |-> "None"]
    /\ lastStored = [id \in SnapshotIds |-> NoValue]
    /\ frame = [t \in Threads |-> IdleFrame]
    /\ bIsRunning = FALSE
    /\ ConnectedClients = EmptyMap
    /\ bBridgeConnected = FALSE
    /\ ModuleState = "started"
    /\ Delegates = AllDelegates
    /\ GEditor = TRUE
    /\ lastEffective = "none"

\* the calls of the seed subsystem, one at a time
Next ==
    \/ \E ns \in Namespaces, ty \in EntityTypes, sd \in Seeds, c \in Counters,
          n \in EntityNames, pin \in BOOLEAN :
          GenerateGUIDCall(ns, ty, sd, c, n, pin)
    \/ \E g \in GUIDs, p \in EntityPaths, ty \in EntityTypes, m \in Metadatas :
          RegisterGUID(g, p, ty, m)
    \/ ClearGUIDRegistry
    \/ \E sd \in Seeds, b \in BOOLEAN : SetGlobalSeed(sd, b)
    \/ \E id \in SnapshotIds, d \in SnapshotDatas : StoreSnapshot(id, d)
    \/ \E id \in SnapshotIds : DeleteSnapshot(id)
    \/ \E id \in SnapshotIds, d \in SnapshotDatas, f \in FilePaths, b \in BOOLEAN :
          ExportSnapshot(id, d, f, b)
    \/ \E id \in SnapshotIds, e \in EntityDocs, mm \in MergeModes, b \in BOOLEAN :
          RestoreWorldState(id, e, mm, b)
    \/ \E id \in SnapshotIds, e \in EntityDocs, b1 \in BOOLEAN,
          cr \in ConflictResolutions, b2 \in BOOLEAN :
          SyncWorldState(id, e, b1, cr, b2)
    \/ \E s1 \in SnapshotIds, s2 \in SnapshotIds, ch \in SnapshotDatas,
          cr \in ConflictResolutions, b \in BOOLEAN :
          MergeWorldStates(s1, s2, ch, cr, b)
    \/ \E id \in SnapshotIds, ch \in SnapshotDatas, cr \in ConflictResolutions :
          ApplyDiff(id, ch, cr)
    \/ \E cf \in ClassFilters, tf \in TagFilters : CaptureAllActors(cf, tf)
    \/ \E b \in BOOLEAN : CaptureFoliage(b)

Spec == Init /\ [][Next]_vars


\* GenerateGUID among the calls that change the subsystem's own state
NextGuid ==
    \/ \E ns \in Namespaces, ty \in EntityTypes, sd \in Seeds, c \in Counters,
          n \in EntityNames, pin \in BOOLEAN :
          GenerateGUIDCall(ns, ty, sd, c, n, pin)
    \/ RegisterGUID(<<"G","1">>, <<"x">>, <<"T">>, <<"m">>)
    \/ ClearGUIDRegistry
    \/ \E sd \in Seeds, b \in BOOLEAN : SetGlobalSeed(sd, b)
    \/ \E d \in {EmptyString, <<"{","}">>} : StoreSnapshot(<<"s","1">>, d)
    \/ DeleteSnapshot(<<"s","1">>)

SpecGuid == Init /\ [][NextGuid]_vars

\* entity arrays used where the registry is the subject
RegistryDocs ==
    { ArrayDoc(<<Obj(<<"A">>, <<"a">>, <<"G","1">>, FullTransform)>>),
      ArrayDoc(<<Obj(<<"A">>, <<"a">>, <<"G","1">>, NoValue),
                 Obj(<<"A">>, <<"b">>, <<"G","1">>, PartTransform)>>),
      ArrayDoc(<<Obj(<<"A">>, <<"a">>, <<"G","2">>, PartTransform)>>) }

\* the calls that write the GUID registry
NextRegistry ==
    \/ \E g \in GUIDs, p \in EntityPaths, ty \in EntityTypes, m \in Metadatas :
          RegisterGUID(g, p, ty, m)
    \/ ClearGUIDRegistry
    \/ \E e \in RegistryDocs : RestoreWorldState(<<"s","1">>, e, S_replace, TRUE)

SpecRegistry == Init /\ [][NextRegistry]_vars

\* RestoreWorldState on every entity text and merge mode, among registry calls
NextRestore ==
    \/ \E e \in EntityDocs, mm \in MergeModes, b \in BOOLEAN :
          RestoreWorldState(<<"s","1">>, e, mm, b)
    \/ \E g \in GUIDs : RegisterGUID(g, ActorPath(<<"a">>), <<"T">>, <<"m">>)
    \/ ClearGUIDRegistry

SpecRestore == Init /\ [][NextRestore]_vars

\* the calls on the snapshot store and on snapshot files
NextSnapshot ==
    \/ \E id \in SnapshotIds, d \in SnapshotDatas : StoreSnapshot(id, d)
    \/ \E id \in SnapshotIds : DeleteSnapshot(id)
    \/ \E id \in SnapshotIds, d \in SnapshotDatas, f \in FilePaths, b \in BOOLEAN :
          ExportSnapshot(id, d, f, b)

SpecSnapshot == Init /\ [][NextSnapshot]_vars

\* sync, merge and diff among calls that fill the registry, the snapshot
\* store, the seed and the world
NextStubs ==
    \/ \E e \in {[root |-> "malformed"], ArrayDoc(<<ItemNumber>>)}, b1 \in BOOLEAN,
          cr \in ConflictResolutions, b2 \in BOOLEAN :
          SyncWorldState(<<"s","1">>, e, b1, cr, b2)
    \/ \E s2 \in SnapshotIds, ch \in {EmptyString, <<"{","}">>},
          cr \in ConflictResolutions, b \in BOOLEAN :
          MergeWorldStates(<<"s","1">>, s2, ch, cr, b)
    \/ \E ch \in {EmptyString, <<"{","}">>}, cr \in ConflictResolutions :
          ApplyDiff(<<"s","1">>, ch, cr)
    \/ RegisterGUID(<<"G","1">>, <<"x">>, <<"T">>, <<"m">>)
    \/ StoreSnapshot(<<"s","1">>, <<"{","}">>)
    \/ SetGlobalSeed(<<"s">>, TRUE)
    \/ RestoreWorldState(<<"s","1">>,
           ArrayDoc(<<Obj(<<"A">>, <<"a">>, <<"G","2">>, PartTransform)>>),
           S_replace, TRUE)

SpecStubs == Init /\ [][NextStubs]_vars

\* as Init, in an editor whose world holds any of the captured actors
InitCapture ==
    /\ GUIDRegistry = EmptyMap
    /\ PathToGUIDMap = EmptyMap
    /\ SnapshotStorage = EmptyMap
    /\ GlobalSeed = EmptyString
    /\ SeedCounter = 0
    /\ World \in CaptureWorlds
    /\ Files = EmptyMap
    /\ lastOp = [op |-> "Init"]
    /\ pinned = [op |-> "None"]
    /\ lastStored = [id \in SnapshotIds |-> NoValue]
    /\ frame = [t \in Threads |-> IdleFrame]
    /\ bIsRunning = FALSE
    /\ ConnectedClients = EmptyMap
    /\ bBridgeConnected = FALSE
    /\ ModuleState = "started"
    /\ Delegates = AllDelegates
    /\ GEditor = TRUE
    /\ lastEffective = "none"

\* CaptureAllActors on every filter, among calls that fill the registry and
\* the snapshot store
NextCapture ==
    \/ \E cf \in ClassFilters, tf \in TagFilters : CaptureAllActors(cf, tf)
    \/ \E g \in GUIDs : RegisterGUID(g, ActorPath(<<"d">>), <<"T">>, <<"m">>)
    \/ ClearGUIDRegistry
    \/ StoreSnapshot(<<"s","1">>, <<"{","}">>)

SpecCapture == InitCapture /\ [][NextCapture]_vars

\* as Init, in an editor whose world may hold a foliage actor
InitFormat ==
    /\ GUIDRegistry = EmptyMap
    /\ PathToGUIDMap = EmptyMap
    /\ SnapshotStorage = EmptyMap
    /\ GlobalSeed = EmptyString
    /\ SeedCounter = 0
    /\ World \in {[exists |-> FALSE, actors |-> {}],
                  [exists |-> TRUE, actors |-> {PreActor}],
                  [exists |-> TRUE, actors |-> {PreActor, FoliageActor}]}
    /\ Files = EmptyMap
    /\ lastOp = [op |-> "Init"]
    /\ pinned = [op |-> "None"]
    /\ lastStored = [id \in SnapshotIds |-> NoValue]
    /\ frame = [t \in Threads |-> IdleFrame]
    /\ bIsRunning = FALSE
    /\ ConnectedClients = EmptyMap
    /\ bBridgeConnected = FALSE
    /\ ModuleState = "started"
    /\ Delegates = AllDelegates
    /\ GEditor = TRUE
    /\ lastEffective = "none"

\* the calls that return text built from ComputeSHA256
NextFormat ==
    \/ \E ns \in FormatNamespaces, ty \in EntityTypes, sd \in Seeds,
          c \in FormatCounters, n \in FormatNames :
          GenerateGUIDCall(ns, ty, sd, c, n, FALSE)
    \/ \E b \in BOOLEAN : CaptureFoliage(b)

SpecFormat == InitFormat /\ [][NextFormat]_vars

Ports == {30020}

\* the calls and callbacks of the WebSocket server, the module being loaded
NextServer ==
    \/ \E Port \in Ports : Initialize(Port)
    \/ Shutdown
    \/ \E et \in EventTypes, d \in EventDatas : BroadcastEvent(et, d)
    \/ \E c \in ClientIds : OnClientConnected(c)
    \/ \E c \in ClientIds : OnClientDisconnected(c)

SpecServer == Init /\ [][NextServer]_vars

\* the module manager has constructed the module and not yet started it; the
\* editor object may or may not exist by then
InitModule ==
    /\ GUIDRegistry = EmptyMap
    /\ PathToGUIDMap = EmptyMap
    /\ SnapshotStorage = EmptyMap
    /\ GlobalSeed = EmptyString
    /\ SeedCounter = 0
    /\ GEditor \in BOOLEAN
    /\ World = IF GEditor THEN [exists |-> TRUE, actors |-> {PreActor}]
                         ELSE [exists |-> FALSE, actors |-> {}]
    /\ Files = EmptyMap
    /\ lastOp = [op |-> "Init"]
    /\ pinned = [op |-> "None"]
    /\ lastStored = [id \in SnapshotIds |-> NoValue]
    /\ frame = [t \in Threads |-> IdleFrame]
    /\ bIsRunning = FALSE
    /\ ConnectedClients = EmptyMap
    /\ bBridgeConnected = FALSE
    /\ ModuleState = "constructed"
    /\ Delegates = {}
    /\ lastEffective = "none"

\* the module from startup to shutdown, the editor's events, and the server
NextBridge ==
    \/ StartupModule
    \/ ShutdownModule
    \/ \E Port \in Ports : Initialize(Port)
    \/ Shutdown
    \/ \E c \in ClientIds : OnClientConnected(c)
    \/ \E c \in ClientIds : OnClientDisconnected(c)
    \/ \E n \in LevelNames : EditorEvent("OnMapOpened", n)
    \/ \E a \in EventActors : EditorEvent("OnLevelActorAdded", a)
    \/ \E a \in EventActors : EditorEvent("OnLevelActorDeleted", a)
    \/ \E sel \in Selections : EditorEvent("SelectionChangedEvent", sel)

SpecBridge == InitModule /\ [][NextBridge]_vars

\* two threads, each running one RegisterGUID call, interleaved step by step
NextConcurrent ==
    \E t \in Threads :
        \/ \E g \in GUIDs, p \in EntityPaths, ty \in EntityTypes, m \in ConcMetadatas :
              Begin(t, g, p, ty, m)
        \/ CheckGUID(t)
        \/ CheckPath(t)
        \/ BuildEntry(t)
        \/ AddRegistry(t)
        \/ AddPath(t)

SpecConcurrent == Init /\ [][NextConcurrent]_vars

----------------------------------------------------------------------------
(* Properties *)

\* the two registry maps are inverse of each other
TwoWay(reg, map) ==
    /\ \A g \in DOMAIN reg :
          reg[g].EntityPath \in DOMAIN map /\ map[reg[g].EntityPath] = g
    /\ \A p \in DOMAIN map :
          map[p] \in DOMAIN reg /\ reg[map[p]].EntityPath = p
    /\ Cardinality(DOMAIN reg) = Cardinality(DOMAIN map)

\* C1: a GenerateGUID call returns the same string as any earlier call with
\* the same five arguments, whatever calls changed the registry, the seed or
\* the snapshot store in between.
C1_GenerateGUIDDeterministic ==
    (lastOp.op = "GenerateGUID" /\ pinned.op = "GenerateGUID"
        /\ lastOp.args = pinned.args)
    => lastOp.ret = pinned.ret

\* C1: a call repeats the arguments of an earlier one after the global seed
\* was changed and a GUID was registered.
C1_Witness ==
    /\ lastOp.op = "GenerateGUID"
    /\ pinned.op = "GenerateGUID"
    /\ lastOp.args = pinned.args
    /\ pinned.seedThen # GlobalSeed
    /\ DOMAIN GUIDRegistry # {}
    /\ DOMAIN SnapshotStorage # {}

\* C2: GUIDRegistry and PathToGUIDMap are inverse of each other in every
\* state reached by RegisterGUID, ClearGUIDRegistry and RestoreWorldState.
C2_RegistryTwoWay == TwoWay(GUIDRegistry, PathToGUIDMap)

\* C2: a restore has registered an actor beside a GUID registered directly.
C2_Witness ==
    /\ lastOp.op = "RestoreWorldState"
    /\ lastOp.count > 0
    /\ Cardinality(DOMAIN GUIDRegistry) = 2
    /\ ActorPath(<<"a">>) \in DOMAIN PathToGUIDMap
    /\ <<"x">> \in DOMAIN PathToGUIDMap

C4_StubsChangeNothing ==
    [][lastOp'.op \in {"SyncWorldState", "MergeWorldStates", "ApplyDiff"} =>
        /\ lastOp'.ret.success = TRUE
        /\ lastOp'.op = "SyncWorldState" => lastOp'.ret.plannedChanges = 0
        /\ lastOp'.op # "SyncWorldState" => lastOp'.ret.appliedChanges = 0
        /\ UNCHANGED <<GUIDRegistry, PathToGUIDMap, SnapshotStorage, GlobalSeed,
                       SeedCounter, World>>]_vars

\* C4: a sync that is not a dry run has run on a filled registry, snapshot
\* store, seed and world.
C4_Witness ==
    /\ lastOp.op = "SyncWorldState"
    /\ lastOp.bDryRun = FALSE
    /\ lastOp.bCaptureCurrentFirst = TRUE
    /\ DOMAIN GUIDRegistry # {}
    /\ DOMAIN SnapshotStorage # {}
    /\ GlobalSeed # EmptyString
    /\ Cardinality(World.actors) = 2

C7_ExportWritesDataUncompressed ==
    [][lastOp'.op = "ExportSnapshot" =>
        /\ UNCHANGED SnapshotStorage
        /\ lastOp'.ret =>
              /\ lastOp'.OutputPath \in DOMAIN Files'
              /\ Files'[lastOp'.OutputPath] = EncodeFile(lastOp'.SnapshotData)
              /\ \A f \in FilePaths :
                    f = lastOp'.OutputPath => ImportSnapshot(f)' = lastOp'.SnapshotData]_vars

\* C7: an export with bCompress of non-ANSI data has succeeded while the
\* store holds other data under the same id.
C7_Witness ==
    /\ lastOp.op = "ExportSnapshot"
    /\ lastOp.ret = TRUE
    /\ lastOp.bCompress = TRUE
    /\ lastOp.SnapshotData = <<"é","x">>
    /\ lastOp.SnapshotId \in DOMAIN SnapshotStorage
    /\ SnapshotStorage[lastOp.SnapshotId] # lastOp.SnapshotData

\* both interleaved calls have returned true for the same path and two GUIDs
BothRegisteredSamePath ==
    /\ \A t \in Threads : frame[t].pc = "done" /\ frame[t].ret = TRUE
    /\ frame[1].EntityPath = frame[2].EntityPath
    /\ frame[1].GUID # frame[2].GUID

\* C8: when two interleaved RegisterGUID calls on an empty registry have both
\* returned true for one path and two different GUIDs, GUIDRegistry and
\* PathToGUIDMap are not inverse of each other.
C8_InterleavedCallsBreakTwoWay ==
    BothRegisteredSamePath => ~TwoWay(GUIDRegistry, PathToGUIDMap)

\* C8: both interleaved calls returned true for the same path.
C8_Witness ==
    /\ BothRegisteredSamePath
    /\ ~TwoWay(GUIDRegistry, PathToGUIDMap)

\* C9: RestoreWorldState returns false, opens no transaction, spawns no
\* actor and changes no registry entry when there is no editor world or
\* Entities is no JSON array; in every other case it returns true.
C9_RestoreReturnValue ==
    [][lastOp'.op = "RestoreWorldState" =>
        LET rejected == ~World.exists \/ lastOp'.Entities.root # "array" IN
        /\ lastOp'.ret = ~rejected
        /\ rejected => /\ lastOp'.trans = 0
                       /\ UNCHANGED <<World, GUIDRegistry, PathToGUIDMap>>]_vars

\* C9: a restore of an entity whose class is not found returned true with
\* nothing restored.
C9_Witness ==
    /\ lastOp.op = "RestoreWorldState"
    /\ lastOp.ret = TRUE
    /\ lastOp.count = 0
    /\ lastOp.Entities = ArrayDoc(<<Obj(<<"N">>, <<"a">>, <<"G","1">>, NoValue)>>)

\* C10: RestoreWorldState keeps every actor of the world as it was, and its
\* return value and effects are those of the same call under any other merge
\* mode.
C10_RestoreIgnoresMergeMode ==
    [][lastOp'.op = "RestoreWorldState" =>
        /\ World.actors \subseteq World'.actors
        /\ \A mm \in MergeModes :
              LET r == RestoreWorldStateCall(World, GUIDRegistry, PathToGUIDMap,
                           lastOp'.Entities, mm, lastOp'.bPreserveGUIDs,
                           lastOp'.SpawnOk, lastOp'.Nows)
              IN  /\ r.ret = lastOp'.ret
                  /\ r.trans = lastOp'.trans
                  /\ r.world = World'
                  /\ r.reg = GUIDRegistry'
                  /\ r.map = PathToGUIDMap']_vars

\* C10: a restore in merge mode "replace" has spawned an actor beside the
\* actor that was in the world before.
C10_Witness ==
    /\ lastOp.op = "RestoreWorldState"
    /\ lastOp.MergeMode = S_replace
    /\ lastOp.ret = TRUE
    /\ lastOp.count > 0
    /\ PreActor \in World.actors

----------------------------------------------------------------------------
(* CaptureAllActors: the actors it outputs *)

\* sub occurs in s, character for character
OccursIn(sub, s) ==
    \E i \in 0..(Len(s) - Len(sub)) : SubSeq(s, i + 1, i + Len(sub)) = sub

\* the actor passes both filters, strings compared character for character
PassesFilters(a, cf, tf) ==
    /\ cf = << >> \/ \E i \in 1..Len(cf) : OccursIn(cf[i], a.Class)
    /\ tf = << >> \/ \A i \in 1..Len(tf) : \E j \in 1..Len(a.Tags) : a.Tags[j] = tf[i]

\* the actor passes both filters, strings compared ignoring letter case
PassesFiltersIgnoringCase(a, cf, tf) ==
    /\ cf = << >> \/ \E i \in 1..Len(cf) : OccursIn(ToLower(cf[i]), ToLower(a.Class))
    /\ tf = << >> \/ \A i \in 1..Len(tf) :
                        \E j \in 1..Len(a.Tags) : ToLower(a.Tags[j]) = ToLower(tf[i])

\* the entries of a returned document ("{}" has none)
Entries(ret) == IF ret.actors = NoValue THEN << >> ELSE ret.actors[1]

\* the document outputs exactly the actors Selected, once each, each with the
\* GUID the path map holds for its path
OutputsExactly(ret, world, map, Selected) ==
    /\ \A a \in world.actors :
          Cardinality({i \in DOMAIN Entries(ret) :
                          Entries(ret)[i].path = ActorPath(a.Name)})
              = IF a \in Selected THEN 1 ELSE 0
    /\ \A i \in DOMAIN Entries(ret) :
          /\ \E a \in world.actors : Entries(ret)[i].path = ActorPath(a.Name)
          /\ Entries(ret)[i].guid =
                 IF Entries(ret)[i].path \in DOMAIN map THEN map[Entries(ret)[i].path]
                 ELSE EmptyString

----------------------------------------------------------------------------
(* GenerateGUID: the form of the returned string *)

\* the namespace codes, by namespace
NamespaceCodes ==
    (S_actor :> <<"A","C","T">>) @@ (S_component :> <<"C","M","P">>)
    @@ (S_asset :> <<"A","S","T">>) @@ (S_blueprint :> <<"B","P","T">>)
    @@ (S_material :> <<"M","A","T">>) @@ (S_landscape :> <<"L","N","D">>)
    @@ (S_foliage :> <<"F","O","L">>) @@ (S_pcg :> <<"P","C","G">>)
    @@ (S_ai :> <<"A","I","N">>) @@ (S_custom :> <<"C","U","S">>)

\* the code of a namespace: that of the listed namespace, UNK for any other
CodeOf(ns) == IF ns \in DOMAIN NamespaceCodes THEN NamespaceCodes[ns]
              ELSE <<"U","N","K">>

UpperHexDigits == {"0","1","2","3","4","5","6","7","8","9","A","B","C","D","E","F"}

\* hex digits from..to (counted from 0) of the hash of the input string of a
\* call, in upper case
HashDigits(args, from, to) ==
    ToUpper(SubSeq(ComputeSHA256(args[1] \o <<":">> \o args[2] \o <<":">> \o args[3]
                                 \o <<":">> \o FormatInt(args[4]) \o <<":">> \o args[5]),
                   from + 1, to + 1))

\* g is code-XXXXXXXX-XXXX-XXXX-XXXXXXXXXXXX with the hash digits of the call
HasGUIDForm(g, code, args) ==
    /\ Len(g) = 35
    /\ g[4] = "-" /\ g[13] = "-" /\ g[18] = "-" /\ g[23] = "-"
    /\ SubSeq(g, 1, 3) = code
    /\ SubSeq(g, 5, 12) = HashDigits(args, 0, 7)
    /\ SubSeq(g, 14, 17) = HashDigits(args, 8, 11)
    /\ SubSeq(g, 19, 22) = HashDigits(args, 12, 15)
    /\ SubSeq(g, 24, 35) = HashDigits(args, 16, 27)
    /\ \A i \in (5..12) \cup (14..17) \cup (19..22) \cup (24..35) : g[i] \in UpperHexDigits

\* C12 as stated: every GenerateGUID result has the form
\* XXX-XXXXXXXX-XXXX-XXXX-XXXXXXXXXXXX, the first group being the code of the
\* namespace (UNK for any namespace but the ten listed) and the others the
\* hash hex digits 0-7, 8-11, 12-15 and 16-27 in upper case.  Violated: a
\* listed namespace written in another letter case gets its code, not UNK.
C12_GUIDFormExactNamespace ==
    lastOp.op = "GenerateGUID" =>
        HasGUIDForm(lastOp.ret, CodeOf(lastOp.args[1]), lastOp.args)

\* C12 amended: as C12, with the namespace compared with the ten listed ones
\* ignoring letter case.
C12_GUIDFormNamespaceIgnoringCase ==
    lastOp.op = "GenerateGUID" =>
        HasGUIDForm(lastOp.ret, CodeOf(ToLower(lastOp.args[1])), lastOp.args)

\* a call with the namespace "ACTOR", a negative counter and a name outside
\* ASCII returned a GUID with the code ACT
C12_Witness ==
    /\ lastOp.op = "GenerateGUID"
    /\ lastOp.args[1] = <<"A","C","T","O","R">>
    /\ lastOp.args[4] < 0
    /\ lastOp.args[5] = <<"é","x">>
    /\ SubSeq(lastOp.ret, 1, 3) = <<"A","C","T">>

----------------------------------------------------------------------------
(* ComputeSHA256: the digest *)

LowerHexDigits == {"0","1","2","3","4","5","6","7","8","9","a","b","c","d","e","f"}

\* C13: the hash CaptureFoliage embeds (instanceDataHash, the value of
\* ComputeSHA256) is a SHA-256 digest in lower-case hexadecimal: 64 hex
\* characters.  Violated: the digest has 20 bytes, 40 characters.
C13_HashIsSHA256Hex ==
    (lastOp.op = "CaptureFoliage" /\ lastOp.ret.foliageActors # NoValue) =>
        \A i \in DOMAIN lastOp.ret.foliageActors[1] :
            LET h == lastOp.ret.foliageActors[1][i].instanceDataHash IN
            h # NoValue =>
                /\ Len(h[1]) = 64
                /\ \A k \in 1..Len(h[1]) : h[1][k] \in LowerHexDigits

----------------------------------------------------------------------------
(* WebSocket server and bridge module *)

\* the number of sends of a call that go to client c
SendsTo(sent, c) == Cardinality({i \in DOMAIN sent : sent[i].to = c})

C15_ServerLifecycle ==
    /\ [][/\ (lastOp'.op = "Initialize" /\ IsRunning(bIsRunning)) =>
                UNCHANGED <<serverVars, moduleVars>>
          /\ (lastOp'.op = "Initialize" /\ ~IsRunning(bIsRunning)) =>
                IsRunning(bIsRunning')
          /\ (lastOp'.op = "Shutdown" /\ ~IsRunning(bIsRunning)) =>
                UNCHANGED <<serverVars, moduleVars>>
          /\ (lastOp'.op = "Shutdown" /\ IsRunning(bIsRunning)) =>
                /\ ~IsRunning(bIsRunning')
                /\ GetClientCount(ConnectedClients') = 0]_vars
    /\ [](IsRunning(bIsRunning) <=> lastEffective = "Initialize")

\* a Shutdown has stopped a server that had been started and had a client
C15_Witness ==
    /\ lastOp.op = "Shutdown"
    /\ lastEffective = "Shutdown"
    /\ ~IsRunning(bIsRunning)
    /\ GetClientCount(ConnectedClients) = 0
    /\ bBridgeConnected

\* C16: with the module loaded, IsBridgeConnected() is true exactly when
\* GetClientCount() > 0, in every state reached by Initialize, Shutdown,
\* OnClientConnected and OnClientDisconnected.  Violated: Shutdown empties
\* ConnectedClients and leaves bBridgeConnected set.
C16_BridgeConnectedIffClients ==
    IsAvailable(ModuleState) =>
        (IsBridgeConnected(bBridgeConnected) <=> GetClientCount(ConnectedClients) > 0)

\* the event type each editor delegate stands for
EventOf ==
    [d \in AllDelegates |->
        CASE d = "OnMapOpened" -> "world.level.changed"
          [] d = "OnLevelActorAdded" -> "world.entity.spawned"
          [] d = "OnLevelActorDeleted" -> "world.entity.destroyed"
          [] d = "SelectionChangedEvent" -> "editor.selection.changed"]

\* C17: once StartupModule has completed with the editor available, every
\* level-loaded, actor-spawned, actor-deleted and selection-changed editor
\* event sends the corresponding event to every connected client.  Violated:
\* StartupModule never starts the server, and BroadcastEvent sends nothing
\* on a stopped server.
C17_EditorEventsReachClients ==
    [][(/\ lastOp'.op = "EditorEvent"
        /\ IsAvailable(ModuleState)
        /\ GEditor
        /\ (lastOp'.Delegate \in {"OnLevelActorAdded", "OnLevelActorDeleted"}
               => lastOp'.Arg # NoValue))
       => \A c \in DOMAIN ConnectedClients :
             \E i \in DOMAIN lastOp'.sent :
                /\ lastOp'.sent[i].to = c
                /\ lastOp'.sent[i].msg.event = EventOf[lastOp'.Delegate]]_vars

====
